---- MODULE Spec2Model ----
(***************************************************************************)
(* Model of src/directed/astar.rs and src/directed/mod.rs (reverse_path).  *)
(*                                                                         *)
(* One behaviour is one call of astar followed by one call of astar_bag    *)
(* with the same arguments (start, successors, heuristic, success), and    *)
(* then a sequence of calls of next on the AstarSolution that astar_bag    *)
(* returned.  The arguments are drawn in Init from all graphs over Nodes   *)
(* with at most MaxEdges weighted edges.                                   *)
(*                                                                         *)
(* The breadth-first family of src/directed/bfs.rs has specifications of   *)
(* its own (BfsSpec, BiSpec, ReachSpec): each draws its arguments and runs *)
(* the calls listed in todo one after the other.  BiFairSpec is the call   *)
(* of bfs_bidirectional alone on disjoint start and end sets, with its     *)
(* loop weakly fair.                                                       *)
(*                                                                         *)
(* The binary heaps to_see and bag_to_see are bags of entries: the same    *)
(* entry can be pushed twice, and pop takes any of the greatest entries.   *)
(*                                                                         *)
(* Registry indices are 0-based as in the source; TLA+ sequences are       *)
(* 1-based, so the entry of index i is parents[i + 1].                     *)
(***************************************************************************)
EXTENDS Integers, Sequences, FiniteSets, Bags, TLC

\* Bounds of the model.
NumNodes == 3
MaxEdges == 3
MaxCost == 2
MaxH == 1
MaxYield == 3

Nodes == 0 .. (NumNodes - 1)
Costs == 0 .. MaxCost

\* usize::MAX, the parent of the start node: an index outside any registry.
\* (Any value >= the registry length behaves the same in get_index.)
USIZE_MAX == 2147483647

None == [some |-> FALSE]
Some(v) == [some |-> TRUE, v |-> v]

VARIABLES
    start,      \* argument: the start node
    edges,      \* argument: the successor function, as a map edge -> cost
    h,          \* argument: the heuristic, a fixed function of the node
    goal,       \* argument: the nodes for which success returns true
    pc,         \* which call is running
    to_see,     \* astar: the binary heap (a bag of SmallestCostHolder)
    parents,    \* astar: the IndexMap, in insertion order
    a_result,   \* astar: the returned Option<(Vec<N>, C)>
    bag_to_see, \* astar_bag: the binary heap
    bag_parents,\* astar_bag: the IndexMap node -> (HashSet<usize>, C)
    min_cost,   \* astar_bag: Option<C>
    sinks,      \* astar_bag: HashSet<usize>
    b_result,   \* astar_bag: None, or Some(cost) with the AstarSolution below
    sol,        \* AstarSolution: [sinks, parents, current, terminated]
    out,        \* what the last call of next returned
    yielded     \* history: the paths next has returned so far

\* The breadth-first family (bfs.rs).
VARIABLES
    elist,          \* argument: the successor function, as an ordered edge list
    pred_same,      \* argument: predecessors_fn is the closure successors_fn
    start_set,      \* argument: the start nodes (NodeRefs, in iteration order)
    end_set,        \* argument: the end nodes of bfs_bidirectional
    bfs_goal,       \* argument: the nodes for which bfs's success returns true
    todo,           \* the calls still to be made, the running one first
    bpc,            \* where the running call is
    check_first,    \* bfs_core: its argument check_first
    bfs_parents,    \* bfs_core: the IndexMap node -> parent index
    bfs_i,          \* bfs_core: the cursor i
    bfs_result,     \* what bfs returned
    loop_result,    \* what bfs_loop returned
    success_calls,  \* history: the calls of success by the last bfs_core
    predecessors,   \* bfs_bidirectional: the forward IndexMap
    bi_successors,  \* bfs_bidirectional: the backward IndexMap (successors)
    i_forwards,     \* bfs_bidirectional: the forward cursor
    i_backwards,    \* bfs_bidirectional: the backward cursor
    bi_result,      \* what bfs_bidirectional returned
    reach,          \* BfsReachable: [i, seen]
    reach_out,      \* what the last call of BfsReachable::next returned
    reach_yielded   \* history: the nodes BfsReachable::next has returned

bfs_args == <<elist, pred_same, start_set, end_set, bfs_goal>>
core_vars == <<check_first, bfs_parents, bfs_i, bfs_result, loop_result,
               success_calls>>
bi_vars == <<predecessors, bi_successors, i_forwards, i_backwards, bi_result>>
reach_vars == <<reach, reach_out, reach_yielded>>
bfs_vars == <<bfs_args, todo, bpc, core_vars, bi_vars, reach_vars>>

vars == <<start, edges, h, goal, pc, to_see, parents, a_result, bag_to_see,
          bag_parents, min_cost, sinks, b_result, sol, out, yielded, bfs_vars>>

args == <<start, edges, h, goal>>
astar_vars == <<to_see, parents, a_result>>
bag_vars == <<bag_to_see, bag_parents, min_cost, sinks, b_result>>
sol_vars == <<sol, out, yielded>>

----------------------------------------------------------------------------
\* Helpers on sets and sequences.

RECURSIVE PermSeqs(_)
\* All the orders in which the elements of a finite set can be iterated.
PermSeqs(S) ==
    IF S = {} THEN {<<>>}
    ELSE UNION {{<<x>> \o p : p \in PermSeqs(S \ {x})} : x \in S}

Last(s) == s[Len(s)]
Reverse(s) == [i \in 1 .. Len(s) |-> s[Len(s) + 1 - i]]
Range(s) == {s[i] : i \in 1 .. Len(s)}

----------------------------------------------------------------------------
\* The caller's closures.

\* successors(node): the (successor, move_cost) pairs of a node.
successors(node) ==
    {<<e[2], edges[e]>> : e \in {d \in DOMAIN edges : d[1] = node}}

heuristic(node) == h[node]

success(node) == node \in goal

----------------------------------------------------------------------------
\* SmallestCostHolder and its ordering.

SmallestCostHolder(estimated_cost, cost, index) ==
    [estimated_cost |-> estimated_cost, cost |-> cost, index |-> index]

\* Mutant of cmp: the estimated costs are compared the way round a max-heap
\* wants, so the greatest estimate is popped first.
cmp_greatest_first(self, other) ==
    IF self.estimated_cost < other.estimated_cost THEN "Less"
    ELSE IF self.estimated_cost > other.estimated_cost THEN "Greater"
    ELSE IF self.cost < other.cost THEN "Less"
    ELSE IF self.cost > other.cost THEN "Greater"
    ELSE "Equal"

\* Ord::cmp of SmallestCostHolder: "Less", "Equal" or "Greater".
cmp(self, other) ==
    IF other.estimated_cost < self.estimated_cost THEN "Less"
    ELSE IF other.estimated_cost > self.estimated_cost THEN "Greater"
    ELSE IF self.cost < other.cost THEN "Less"
    ELSE IF self.cost > other.cost THEN "Greater"
    ELSE "Equal"

\* BinaryHeap::pop returns a greatest entry; which one among equal entries
\* is left to the heap's layout, so every greatest entry is a possible result.
\* Mutant of pop: any entry is returned, whatever its estimate.
pop_any(heap) == BagToSet(heap)

pop(heap) ==
    {e \in BagToSet(heap) : \A o \in BagToSet(heap) : cmp(e, o) # "Less"}

\* The heap after BinaryHeap::pop returned e.
popped(heap, e) == heap (-) SetToBag({e})

\* BinaryHeap::push
push(heap, e) == heap (+) SetToBag({e})

----------------------------------------------------------------------------
\* The registry (IndexMap).

\* IndexMap::get_index_of: the index of a key, when it is present.
contains_key(ps, node) == \E i \in 1 .. Len(ps) : ps[i].node = node
get_index_of(ps, node) == (CHOOSE i \in 1 .. Len(ps) : ps[i].node = node) - 1

\* IndexMap::get_index: the entry at an index, None when out of range.
get_index(ps, i) == IF i >= 0 /\ i < Len(ps) THEN Some(ps[i + 1]) ELSE None

\* The mark of a walk that never ends (no node has this value).
Endless == NumNodes

RECURSIVE unfold(_, _, _)
\* The from_fn iterator of reverse_path: the nodes met while following the
\* parent references from index i, until get_index returns None.  fuel bounds
\* the walk: a walk longer than the registry has met an index twice and
\* would never end; it is reported by the mark Endless, which is no node.
unfold(ps, i, fuel) ==
    IF ~get_index(ps, i).some THEN <<>>
    ELSE IF fuel = 0 THEN <<Endless>>
    ELSE <<ps[i + 1].node>> \o unfold(ps, ps[i + 1].parent, fuel - 1)

\* Mutant of reverse_path: the collected nodes are not reversed.
reverse_path_not_reversed(ps, i) == unfold(ps, i, Len(ps))

reverse_path(ps, i) == Reverse(unfold(ps, i, Len(ps)))

----------------------------------------------------------------------------
\* astar

\* Mutant of improves: a dearer route replaces the entry.
improves_reversed(recorded, new_cost) == recorded < new_cost

\* Mutant of improves: an equal cost also replaces the entry.
improves_or_equal(recorded, new_cost) == recorded >= new_cost

\* The test of the Occupied arm: the recorded cost exceeds the new one.
improves(recorded, new_cost) == recorded > new_cost

\* Mutant of stale: an entry of the recorded cost is discarded too.
stale_or_equal(cost, c) == cost >= c

\* The staleness test on a popped entry.
stale(cost, c) == cost > c

RECURSIVE astar_relax_keeps_parent(_, _, _, _, _)
\* Mutant of astar_relax: an improved entry gets the new cost and keeps the
\* parent it had.
astar_relax_keeps_parent(ss, cost, index, ps, ts) ==
    IF ss = <<>> THEN [parents |-> ps, to_see |-> ts]
    ELSE
        LET successor == ss[1][1]
            new_cost == cost + ss[1][2]
            entry == [node |-> successor, parent |-> index, cost |-> new_cost]
            e == SmallestCostHolder(new_cost + heuristic(successor), new_cost,
                    IF contains_key(ps, successor)
                    THEN get_index_of(ps, successor) ELSE Len(ps))
        IN  IF ~contains_key(ps, successor) THEN
                astar_relax_keeps_parent(Tail(ss), cost, index,
                    Append(ps, entry), push(ts, e))
            ELSE IF improves(ps[e.index + 1].cost, new_cost) THEN
                astar_relax_keeps_parent(Tail(ss), cost, index,
                    [ps EXCEPT ![e.index + 1].cost = new_cost], push(ts, e))
            ELSE astar_relax_keeps_parent(Tail(ss), cost, index, ps, ts)

RECURSIVE astar_relax(_, _, _, _, _)
\* The for loop over the successors of the node at index, taken in the
\* order ss: the registry and the heap after it.
astar_relax(ss, cost, index, ps, ts) ==
    IF ss = <<>> THEN [parents |-> ps, to_see |-> ts]
    ELSE
        LET successor == ss[1][1]
            move_cost == ss[1][2]
            new_cost == cost + move_cost
            entry == [node |-> successor, parent |-> index, cost |-> new_cost]
        IN  IF ~contains_key(ps, successor) THEN
                astar_relax(Tail(ss), cost, index, Append(ps, entry),
                    push(ts, SmallestCostHolder(
                        new_cost + heuristic(successor), new_cost, Len(ps))))
            ELSE
                LET n == get_index_of(ps, successor) IN
                IF improves(ps[n + 1].cost, new_cost) THEN
                    astar_relax(Tail(ss), cost, index,
                        [ps EXCEPT ![n + 1] = entry],
                        push(ts, SmallestCostHolder(
                            new_cost + heuristic(successor), new_cost, n)))
                ELSE astar_relax(Tail(ss), cost, index, ps, ts)

\* The popped entry is a goal node: return the path and the popped cost.
AstarReturn ==
    /\ pc = "astar"
    /\ \E e \in pop(to_see) :
        /\ success(parents[e.index + 1].node)
        /\ a_result' = Some([path |-> reverse_path(parents, e.index),
                             cost |-> e.cost])
        /\ to_see' = popped(to_see, e)
    /\ pc' = "astar_returned"
    /\ UNCHANGED <<bfs_vars, args, parents, bag_vars, sol_vars>>

\* The popped entry is not a goal node and is stale: continue.
AstarDiscard ==
    /\ pc = "astar"
    /\ \E e \in pop(to_see) :
        /\ ~success(parents[e.index + 1].node)
        /\ stale(e.cost, parents[e.index + 1].cost)
        /\ to_see' = popped(to_see, e)
    /\ UNCHANGED <<bfs_vars, args, pc, parents, a_result, bag_vars, sol_vars>>

\* The popped entry is not a goal node and is not stale: expand it.
AstarExpand ==
    /\ pc = "astar"
    /\ \E e \in pop(to_see) :
        /\ ~success(parents[e.index + 1].node)
        /\ ~stale(e.cost, parents[e.index + 1].cost)
        /\ \E ss \in PermSeqs(successors(parents[e.index + 1].node)) :
            LET r == astar_relax(ss, e.cost, e.index, parents,
                                 popped(to_see, e))
            IN  /\ parents' = r.parents
                /\ to_see' = r.to_see
    /\ UNCHANGED <<bfs_vars, args, pc, a_result, bag_vars, sol_vars>>

\* The heap is empty: return None.
AstarNone ==
    /\ pc = "astar"
    /\ to_see = EmptyBag
    /\ a_result' = None
    /\ pc' = "astar_returned"
    /\ UNCHANGED <<bfs_vars, args, to_see, parents, bag_vars, sol_vars>>

----------------------------------------------------------------------------
\* astar_bag

\* The break test: a minimal cost is known and the popped estimate exceeds it.
past_min_cost(mc, estimated_cost) == mc.some /\ estimated_cost > mc.v

\* Mutant of identical_cost: a dearer route also adds its parent.
identical_or_dearer(recorded, new_cost) == recorded <= new_cost

\* The test of the else arm: a new parent with an identical cost.
identical_cost(recorded, new_cost) == recorded = new_cost

RECURSIVE bag_relax(_, _, _, _, _)
\* The for loop over the successors of the node at index, taken in the
\* order ss: the registry and the heap after it.
bag_relax(ss, cost, index, ps, ts) ==
    IF ss = <<>> THEN [parents |-> ps, to_see |-> ts]
    ELSE
        LET successor == ss[1][1]
            move_cost == ss[1][2]
            new_cost == cost + move_cost
            entry == [node |-> successor, parents |-> {index}, cost |-> new_cost]
        IN  IF ~contains_key(ps, successor) THEN
                bag_relax(Tail(ss), cost, index, Append(ps, entry),
                    push(ts, SmallestCostHolder(
                        new_cost + heuristic(successor), new_cost, Len(ps))))
            ELSE
                LET n == get_index_of(ps, successor) IN
                IF improves(ps[n + 1].cost, new_cost) THEN
                    bag_relax(Tail(ss), cost, index,
                        [ps EXCEPT ![n + 1] = entry],
                        push(ts, SmallestCostHolder(
                            new_cost + heuristic(successor), new_cost, n)))
                ELSE IF identical_cost(ps[n + 1].cost, new_cost) THEN
                    bag_relax(Tail(ss), cost, index,
                        [ps EXCEPT ![n + 1].parents = @ \cup {index}], ts)
                ELSE bag_relax(Tail(ss), cost, index, ps, ts)

RECURSIVE parent_tables(_, _)
\* The Vec<(N, Vec<usize>)> tables that collecting the first k registry
\* entries can give: each HashSet is iterated in an order of its own.
parent_tables(ps, k) ==
    IF k = 0 THEN {<<>>}
    ELSE {Append(t, [node |-> ps[k].node, parents |-> o]) :
            t \in parent_tables(ps, k - 1), o \in PermSeqs(ps[k].parents)}

\* The AstarSolution values that min_cost.map(..) can build.
solutions(sk, ps) ==
    {[sinks |-> s, parents |-> t, current |-> <<>>, terminated |-> FALSE] :
        s \in PermSeqs(sk), t \in parent_tables(ps, Len(ps))}

\* The end of astar_bag, after the loop: None, or the solution and its cost.
BagFinish(mc, sk, ps) ==
    IF mc.some
    THEN /\ b_result' = Some(mc.v)
         /\ sol' \in solutions(sk, ps)
         /\ pc' = "next"
    ELSE /\ b_result' = None
         /\ sol' = sol
         /\ pc' = "done"

\* The call of astar_bag with the arguments astar was called with; the
\* locals of astar are gone.
BagStart ==
    /\ pc = "astar_returned"
    /\ pc' = "astar_bag"
    /\ bag_to_see' = push(EmptyBag, SmallestCostHolder(0, 0, 0))
    /\ min_cost' = None
    /\ sinks' = {}
    /\ bag_parents' = <<[node |-> start, parents |-> {}, cost |-> 0]>>
    /\ to_see' = EmptyBag
    /\ parents' = <<>>
    /\ UNCHANGED <<bfs_vars, args, a_result, b_result, sol_vars>>

\* The popped estimate exceeds the minimal cost: break, and build the result.
BagBreak ==
    /\ pc = "astar_bag"
    /\ \E e \in pop(bag_to_see) :
        /\ past_min_cost(min_cost, e.estimated_cost)
        /\ bag_to_see' = popped(bag_to_see, e)
    /\ BagFinish(min_cost, sinks, bag_parents)
    /\ UNCHANGED <<bfs_vars, args, astar_vars, bag_parents, min_cost, sinks, out,
                   yielded>>

\* The popped entry is stale: continue (after recording it when it is a goal).
BagDiscard ==
    /\ pc = "astar_bag"
    /\ \E e \in pop(bag_to_see) :
        /\ ~past_min_cost(min_cost, e.estimated_cost)
        /\ stale(e.cost, bag_parents[e.index + 1].cost)
        /\ IF success(bag_parents[e.index + 1].node)
           THEN /\ min_cost' = Some(e.cost)
                /\ sinks' = sinks \cup {e.index}
           ELSE UNCHANGED <<min_cost, sinks>>
        /\ bag_to_see' = popped(bag_to_see, e)
    /\ UNCHANGED <<bfs_vars, args, pc, astar_vars, bag_parents, b_result,
                   sol_vars>>

\* The popped entry is not stale: expand it (after recording it when it is
\* a goal).
BagExpand ==
    /\ pc = "astar_bag"
    /\ \E e \in pop(bag_to_see) :
        /\ ~past_min_cost(min_cost, e.estimated_cost)
        /\ ~stale(e.cost, bag_parents[e.index + 1].cost)
        /\ IF success(bag_parents[e.index + 1].node)
           THEN /\ min_cost' = Some(e.cost)
                /\ sinks' = sinks \cup {e.index}
           ELSE UNCHANGED <<min_cost, sinks>>
        /\ \E ss \in PermSeqs(successors(bag_parents[e.index + 1].node)) :
            LET r == bag_relax(ss, e.cost, e.index, bag_parents,
                               popped(bag_to_see, e))
            IN  /\ bag_parents' = r.parents
                /\ bag_to_see' = r.to_see
    /\ UNCHANGED <<bfs_vars, args, pc, astar_vars, b_result, sol_vars>>

\* The heap is empty: the loop ends, build the result.
BagExhausted ==
    /\ pc = "astar_bag"
    /\ bag_to_see = EmptyBag
    /\ BagFinish(min_cost, sinks, bag_parents)
    /\ UNCHANGED <<bfs_vars, args, astar_vars, bag_to_see, bag_parents, min_cost,
                   sinks, out, yielded>>

----------------------------------------------------------------------------
\* AstarSolution

\* AstarSolution::node and AstarSolution::parents.
node(s, i) == s.parents[i + 1].node
parents_of(s, i) == s.parents[i + 1].parents

RECURSIVE complete(_, _, _)
\* AstarSolution::complete on the stack cur.  status is "ok" when the loop
\* ends, "panic" when an unwrap or an index fails, and "diverges" when the
\* loop has pushed more lists than the table has entries: the list pushed is
\* a function of the last node of the list before it, so some node was
\* selected twice and the loop repeats for ever.
complete(s, cur, fuel) ==
    IF cur # <<>> /\ Last(cur) = <<>>
    THEN [status |-> "panic", current |-> cur]
    ELSE IF cur # <<>> /\ Last(Last(cur)) >= Len(s.parents)
    THEN [status |-> "panic", current |-> cur]
    ELSE
        LET ps == IF cur = <<>> THEN s.sinks
                  ELSE parents_of(s, Last(Last(cur)))
        IN  IF ps = <<>> THEN [status |-> "ok", current |-> cur]
            ELSE IF fuel = 0 THEN [status |-> "diverges", current |-> cur]
            ELSE complete(s, Append(cur, ps), fuel - 1)

\* Mutant of pop_singles: no list is popped.
pop_singles_skipped(cur) == cur

RECURSIVE pop_singles(_)
\* while self.current.pop_if(|v| v.len() == 1).is_some() {}
pop_singles(cur) ==
    IF cur # <<>> /\ Len(Last(cur)) = 1
    THEN pop_singles(SubSeq(cur, 1, Len(cur) - 1))
    ELSE cur

\* Vec::pop as used on the topmost list: nothing happens on an empty list.
vec_pop(v) == IF v = <<>> THEN v ELSE SubSeq(v, 1, Len(v) - 1)

\* Mutant of next_vec: the selection of the topmost list is not advanced.
next_vec_not_advanced(cur) == pop_singles(cur)

\* AstarSolution::next_vec
next_vec(cur) ==
    LET c == pop_singles(cur)
    IN  IF c = <<>> THEN c ELSE [c EXCEPT ![Len(c)] = vec_pop(@)]

\* The path read off the stack in next: the last element of every list,
\* from the deepest list to the first.
read_path(s, cur) ==
    [i \in 1 .. Len(cur) |-> node(s, Last(cur[Len(cur) + 1 - i]))]

\* Mutant of is_terminated: the flag is ignored.
is_terminated_ignored(s) == FALSE

\* The test at the head of next.
is_terminated(s) == s.terminated

\* next on an exhausted solution: None, and nothing changes.
SolNextNone ==
    /\ pc = "next"
    /\ is_terminated(sol)
    /\ out' = None
    /\ UNCHANGED <<bfs_vars, args, pc, astar_vars, bag_vars, sol, yielded>>

\* next on a solution that is not exhausted.
SolNext ==
    /\ pc = "next"
    /\ ~is_terminated(sol)
    /\ Len(yielded) < MaxYield
    /\ LET r == complete(sol, sol.current, Len(sol.parents) + 1)
       IN  IF r.status = "ok" /\ \A i \in 1 .. Len(r.current) : r.current[i] # <<>>
           THEN LET path == read_path(sol, r.current)
                    c == next_vec(r.current)
                IN  /\ sol' = [sol EXCEPT !.current = c,
                                          !.terminated = (c = <<>>)]
                    /\ out' = Some(path)
                    /\ yielded' = Append(yielded, path)
                    /\ pc' = pc
           ELSE /\ pc' = (IF r.status = "ok" THEN "panic" ELSE r.status)
                /\ sol' = [sol EXCEPT !.current = r.current]
                /\ UNCHANGED <<out, yielded>>
    /\ UNCHANGED <<bfs_vars, args, astar_vars, bag_vars>>

----------------------------------------------------------------------------
\* The breadth-first family: the caller's closures.

\* The state of the breadth-first family while only astar and astar_bag run.
BfsIdle ==
    /\ elist = <<>>
    /\ pred_same = FALSE
    /\ start_set = <<>>
    /\ end_set = <<>>
    /\ bfs_goal = {}
    /\ todo = <<>>
    /\ bpc = "idle"
    /\ check_first = FALSE
    /\ bfs_parents = <<>>
    /\ bfs_i = 0
    /\ bfs_result = None
    /\ loop_result = None
    /\ success_calls = <<>>
    /\ predecessors = <<>>
    /\ bi_successors = <<>>
    /\ i_forwards = 0
    /\ i_backwards = 0
    /\ bi_result = None
    /\ reach = [i |-> 0, seen |-> <<>>]
    /\ reach_out = None
    /\ reach_yielded = <<>>

RECURSIVE targets_of(_, _)
\* The targets of the edges of es that leave node, in the order of es.
targets_of(es, n) ==
    IF es = <<>> THEN <<>>
    ELSE IF es[1][1] = n THEN <<es[1][2]>> \o targets_of(Tail(es), n)
    ELSE targets_of(Tail(es), n)

RECURSIVE sources_of(_, _)
\* The sources of the edges of es that enter node, in the order of es.
sources_of(es, n) ==
    IF es = <<>> THEN <<>>
    ELSE IF es[1][2] = n THEN <<es[1][1]>> \o sources_of(Tail(es), n)
    ELSE sources_of(Tail(es), n)

\* successors(node) of bfs, bfs_loop and bfs_reach; successors_fn(node) of
\* bfs_bidirectional: the successors of a node, in the order it returns them.
successors_fn(n) == targets_of(elist, n)

\* predecessors_fn(node) of bfs_bidirectional: the closure successors_fn
\* itself (the undirected use), or the reverse of the successor function.
predecessors_fn(n) ==
    IF pred_same THEN targets_of(elist, n) ELSE sources_of(elist, n)

\* NodeRefs::contains
refs_contains(refs, n) == \E k \in 1 .. Len(refs) : refs[k] = n

\* The success closure bfs_core is given: the caller's predicate for bfs,
\* |n| start.contains(n) for bfs_loop.
core_success(cf, n) ==
    IF cf THEN n \in bfs_goal ELSE refs_contains(start_set, n)

----------------------------------------------------------------------------
\* bfs, bfs_loop and bfs_core

\* Mutant of seed_parents: only the first start node is registered.
seed_parents_first_only(refs) ==
    [k \in 1 .. 1 |-> [node |-> refs[k], parent |-> USIZE_MAX]]

\* The registry of bfs_core as it is seeded: every start node, with the
\* parent usize::MAX.
seed_parents(refs) ==
    [k \in 1 .. Len(refs) |-> [node |-> refs[k], parent |-> USIZE_MAX]]

RECURSIVE first_success(_, _)
\* The check_first loop: the first start node success accepts, if any.
first_success(cf, refs) ==
    IF refs = <<>> THEN None
    ELSE IF core_success(cf, refs[1]) THEN Some(<<refs[1]>>)
    ELSE first_success(cf, Tail(refs))

\* A call of success(n) as the history keeps it: known tells whether n was
\* in the registry ps when the call was made.
success_call(cf, n, ps) ==
    [node |-> n, known |-> contains_key(ps, n), result |-> core_success(cf, n)]

RECURSIVE first_calls(_, _)
\* The calls of success the check_first loop makes: the registry does not
\* exist yet.
first_calls(cf, refs) ==
    IF refs = <<>> THEN <<>>
    ELSE <<success_call(cf, refs[1], <<>>)>>
         \o (IF core_success(cf, refs[1]) THEN <<>>
             ELSE first_calls(cf, Tail(refs)))

RECURSIVE core_for_new_only(_, _, _)
\* Mutant of core_for: success is only called on a successor that is not in
\* the registry yet.
core_for_new_only(ss, ps, i) ==
    IF ss = <<>> THEN [result |-> None, parents |-> ps, calls |-> <<>>]
    ELSE IF contains_key(ps, ss[1]) THEN core_for_new_only(Tail(ss), ps, i)
    ELSE LET c == success_call(check_first, ss[1], ps)
         IN  IF c.result
             THEN [result |-> Some(Append(reverse_path(ps, i), ss[1])),
                   parents |-> ps, calls |-> <<c>>]
             ELSE LET r == core_for_new_only(Tail(ss),
                            Append(ps, [node |-> ss[1], parent |-> i]), i)
                  IN  [r EXCEPT !.calls = <<c>> \o @]

RECURSIVE core_for(_, _, _)
\* The for loop over the successors ss of the node at index i: the path when
\* a successor is accepted by success, the registry after the loop, and the
\* calls of success made.
core_for(ss, ps, i) ==
    IF ss = <<>> THEN [result |-> None, parents |-> ps, calls |-> <<>>]
    ELSE LET c == success_call(check_first, ss[1], ps)
         IN  IF c.result
             THEN [result |-> Some(Append(reverse_path(ps, i), ss[1])),
                   parents |-> ps, calls |-> <<c>>]
             ELSE LET r == core_for(Tail(ss),
                            IF contains_key(ps, ss[1]) THEN ps
                            ELSE Append(ps, [node |-> ss[1], parent |-> i]),
                            i)
                  IN  [r EXCEPT !.calls = <<c>> \o @]

\* The running call returns r: it is stored as the result of that call and
\* the next call of todo is up.
CoreReturns(r) ==
    /\ IF Head(todo) = "bfs"
       THEN bfs_result' = r /\ loop_result' = loop_result
       ELSE loop_result' = r /\ bfs_result' = bfs_result
    /\ todo' = Tail(todo)
    /\ bpc' = "call"

\* bfs(start, successors, success): bfs_core with check_first = true, up to
\* the while loop.
BfsCall ==
    /\ bpc = "call" /\ todo # <<>> /\ Head(todo) = "bfs"
    /\ check_first' = TRUE
    /\ success_calls' = first_calls(TRUE, start_set)
    /\ LET f == first_success(TRUE, start_set)
       IN  IF f.some
           THEN /\ CoreReturns(f)
                /\ UNCHANGED <<bfs_parents, bfs_i>>
           ELSE /\ bfs_parents' = seed_parents(start_set)
                /\ bfs_i' = 0
                /\ bpc' = "core"
                /\ UNCHANGED <<todo, bfs_result, loop_result>>
    /\ UNCHANGED <<bfs_args, bi_vars, reach_vars, args, pc, astar_vars,
                   bag_vars, sol_vars>>

\* bfs_loop(start, successors): bfs_core with check_first = false and the
\* success closure |n| start.contains(n), up to the while loop.
BfsLoopCall ==
    /\ bpc = "call" /\ todo # <<>> /\ Head(todo) = "bfs_loop"
    /\ check_first' = FALSE
    /\ success_calls' = <<>>
    /\ bfs_parents' = seed_parents(start_set)
    /\ bfs_i' = 0
    /\ bpc' = "core"
    /\ UNCHANGED <<bfs_args, todo, bfs_result, loop_result, bi_vars,
                   reach_vars, args, pc, astar_vars, bag_vars, sol_vars>>

\* One iteration of the while loop of bfs_core: the node at index i is
\* scanned; the call returns when one of its successors is accepted.
CoreStep ==
    /\ bpc = "core"
    /\ get_index(bfs_parents, bfs_i).some
    /\ LET r == core_for(successors_fn(bfs_parents[bfs_i + 1].node),
                         bfs_parents, bfs_i)
       IN  IF r.result.some
           THEN /\ CoreReturns(r.result)
                /\ UNCHANGED <<bfs_parents, bfs_i>>
           ELSE /\ bfs_parents' = r.parents
                /\ bfs_i' = bfs_i + 1
                /\ UNCHANGED <<todo, bpc, bfs_result, loop_result>>
    /\ success_calls' = success_calls
        \o core_for(successors_fn(bfs_parents[bfs_i + 1].node),
                    bfs_parents, bfs_i).calls
    /\ UNCHANGED <<bfs_args, check_first, bi_vars, reach_vars, args, pc,
                   astar_vars, bag_vars, sol_vars>>

\* The while loop of bfs_core ends: every registered node was scanned.
CoreNone ==
    /\ bpc = "core"
    /\ ~get_index(bfs_parents, bfs_i).some
    /\ CoreReturns(None)
    /\ UNCHANGED <<bfs_args, check_first, bfs_parents, bfs_i, success_calls,
                   bi_vars, reach_vars, args, pc, astar_vars, bag_vars,
                   sol_vars>>

----------------------------------------------------------------------------
\* bfs_bidirectional

\* The two registries as they are seeded: every node of refs, with no parent.
seed_registry(refs) ==
    [k \in 1 .. Len(refs) |-> [node |-> refs[k], parent |-> None]]

RECURSIVE bi_inner(_, _, _, _)
\* The for loop over the neighbours ss of the node at index i of the registry
\* own: a neighbour not yet in own is inserted with parent i, and the first
\* neighbour found in the registry other is the middle.
bi_inner(ss, own, other, i) ==
    IF ss = <<>> THEN [middle |-> None, own |-> own]
    ELSE LET own2 == IF ~contains_key(own, ss[1])
                     THEN Append(own, [node |-> ss[1], parent |-> Some(i)])
                     ELSE own
         IN  IF contains_key(other, ss[1])
             THEN [middle |-> Some(ss[1]), own |-> own2]
             ELSE bi_inner(Tail(ss), own2, other, i)

RECURSIVE bi_layer_successors_only(_, _, _, _, _)
\* Mutant of bi_layer: the backward layer asks successors_fn too.
bi_layer_successors_only(k, own, other, i, forward) ==
    IF k = 0 THEN [middle |-> None, own |-> own, i |-> i]
    ELSE LET r == bi_inner(successors_fn(own[i + 1].node), own, other, i)
         IN  IF r.middle.some
             THEN [middle |-> r.middle, own |-> r.own, i |-> i]
             ELSE bi_layer_successors_only(k - 1, r.own, other, i + 1,
                                           forward)

RECURSIVE bi_layer(_, _, _, _, _)
\* The loop for _ in 0..k over the nodes of own from index i on; forward
\* tells which of the two closures gives the neighbours.
bi_layer(k, own, other, i, forward) ==
    IF k = 0 THEN [middle |-> None, own |-> own, i |-> i]
    ELSE LET n == own[i + 1].node
             r == bi_inner(IF forward THEN successors_fn(n)
                                      ELSE predecessors_fn(n),
                           own, other, i)
         IN  IF r.middle.some
             THEN [middle |-> r.middle, own |-> r.own, i |-> i]
             ELSE bi_layer(k - 1, r.own, other, i + 1, forward)

RECURSIVE chain(_, _)
\* The while loop of the path construction: n, then the node its entry of
\* reg names as parent, and so on until an entry has no parent.  A parent
\* index is below the index of the entry that holds it, so the walk ends.
chain(reg, n) ==
    LET p == reg[get_index_of(reg, n) + 1].parent
    IN  <<n>> \o (IF p.some THEN chain(reg, reg[p.v + 1].node) ELSE <<>>)

\* The path through middle: back to a start node, reversed, then on to an
\* end node.
bi_path(middle, preds, succs) ==
    Reverse(chain(preds, middle)) \o Tail(chain(succs, middle))

\* bfs_bidirectional returns r with the registries as they are.
BiReturns(r, preds, succs, i, j) ==
    /\ bi_result' = r
    /\ predecessors' = preds
    /\ bi_successors' = succs
    /\ i_forwards' = i
    /\ i_backwards' = j
    /\ todo' = Tail(todo)
    /\ bpc' = "call"

\* bfs_bidirectional(start, end, successors_fn, predecessors_fn), up to the
\* loop.
BiCall ==
    /\ bpc = "call" /\ todo # <<>> /\ Head(todo) = "bfs_bidirectional"
    /\ predecessors' = seed_registry(start_set)
    /\ bi_successors' = seed_registry(end_set)
    /\ i_forwards' = 0
    /\ i_backwards' = 0
    /\ bpc' = "bi"
    /\ UNCHANGED <<bfs_args, todo, bi_result, core_vars, reach_vars, args, pc,
                   astar_vars, bag_vars, sol_vars>>

\* One iteration of the loop 'l: a forward layer, a backward layer, and the
\* test that both registries are scanned to their ends.
BiRound ==
    /\ bpc = "bi"
    /\ LET f == bi_layer(Len(predecessors) - i_forwards, predecessors,
                         bi_successors, i_forwards, TRUE)
           b == bi_layer(Len(bi_successors) - i_backwards, bi_successors,
                         f.own, i_backwards, FALSE)
       IN  IF f.middle.some
           THEN BiReturns(Some(bi_path(f.middle.v, f.own, bi_successors)),
                          f.own, bi_successors, f.i, i_backwards)
           ELSE IF b.middle.some
           THEN BiReturns(Some(bi_path(b.middle.v, f.own, b.own)),
                          f.own, b.own, f.i, b.i)
           ELSE IF f.i = Len(f.own) /\ b.i = Len(b.own)
           THEN BiReturns(None, f.own, b.own, f.i, b.i)
           ELSE /\ predecessors' = f.own
                /\ bi_successors' = b.own
                /\ i_forwards' = f.i
                /\ i_backwards' = b.i
                /\ UNCHANGED <<todo, bpc, bi_result>>
    /\ UNCHANGED <<bfs_args, core_vars, reach_vars, args, pc, astar_vars,
                   bag_vars, sol_vars>>

----------------------------------------------------------------------------
\* bfs_reach and BfsReachable

\* Mutant of seen_insert: the node is appended even when it is present.
seen_push(seen, s) == Append(seen, s)

\* IndexSet::insert: the node is appended unless it is present.
seen_insert(seen, s) ==
    IF \E k \in 1 .. Len(seen) : seen[k] = s THEN seen ELSE Append(seen, s)

\* Mutant of insert_all: only the first successor is inserted.
insert_first_only(seen, ss) ==
    IF ss = <<>> THEN seen ELSE seen_insert(seen, ss[1])

RECURSIVE insert_all(_, _)
\* for s in (self.successors)(&n) { self.seen.insert(s); }
insert_all(seen, ss) ==
    IF ss = <<>> THEN seen
    ELSE insert_all(seen_insert(seen, ss[1]), Tail(ss))

\* Mutant of remaining_nodes_low_bound: the cursor is not subtracted.
remaining_nodes_low_bound_no_cursor(self) == Len(self.seen)

remaining_nodes_low_bound(self) == Len(self.seen) - self.i

\* Mutant of reach_next: the node registered last is taken (a stack), not
\* the node at the cursor (a queue).
reach_next_takes_last(self) ==
    IF ~(self.i < Len(self.seen)) THEN [self |-> self, out |-> None]
    ELSE LET n == Last(self.seen)
         IN  [self |-> [i |-> self.i + 1,
                        seen |-> insert_all(self.seen, successors_fn(n))],
              out |-> Some(n)]

\* BfsReachable::next as a function: the iterator after the call and the
\* value returned.
reach_next(self) ==
    IF ~(self.i < Len(self.seen)) THEN [self |-> self, out |-> None]
    ELSE LET n == self.seen[self.i + 1]
         IN  [self |-> [i |-> self.i + 1,
                        seen |-> insert_all(self.seen, successors_fn(n))],
              out |-> Some(n)]

\* bfs_reach(start, successors)
ReachCall ==
    /\ bpc = "call" /\ todo # <<>> /\ Head(todo) = "bfs_reach"
    /\ reach' = [i |-> 0, seen |-> seen_insert(<<>>, start_set[1])]
    /\ bpc' = "reach"
    /\ UNCHANGED <<bfs_args, todo, reach_out, reach_yielded, core_vars,
                   bi_vars, args, pc, astar_vars, bag_vars, sol_vars>>

\* A call of next that yields a node.
ReachNext ==
    /\ bpc = "reach"
    /\ reach_next(reach).out.some
    /\ reach' = reach_next(reach).self
    /\ reach_out' = reach_next(reach).out
    /\ reach_yielded' = Append(reach_yielded, reach_next(reach).out.v)
    /\ UNCHANGED <<bfs_args, todo, bpc, core_vars, bi_vars, args, pc,
                   astar_vars, bag_vars, sol_vars>>

\* A call of next that returns None.
ReachNextNone ==
    /\ bpc = "reach"
    /\ ~reach_next(reach).out.some
    /\ reach' = reach_next(reach).self
    /\ reach_out' = reach_next(reach).out
    /\ UNCHANGED <<bfs_args, todo, bpc, reach_yielded, core_vars, bi_vars,
                   args, pc, astar_vars, bag_vars, sol_vars>>

----------------------------------------------------------------------------
\* The arguments.

RECURSIVE ReachFrom(_, _)
\* The nodes reachable from the set R along the edges of E.
ReachFrom(R, E) ==
    LET R2 == R \cup {e[2] : e \in {d \in E : d[1] \in R}}
    IN  IF R2 = R THEN R ELSE ReachFrom(R2, E)

\* The arguments are taken up to what the calls can observe: the closures
\* are only ever applied to nodes reachable from start, and heuristic is
\* never applied to start (its entry is never improved).
Init ==
    /\ start = 0
    /\ \E E \in SUBSET (Nodes \X Nodes) :
        /\ Cardinality(E) <= MaxEdges
        /\ \A e \in E : e[1] \in ReachFrom({start}, E)
        /\ edges \in [E -> Costs]
        /\ goal \in SUBSET ReachFrom({start}, E)
        /\ h \in {f \in [Nodes -> 0 .. MaxH] :
                    \A n \in Nodes :
                        n \notin (ReachFrom({start}, E) \ {start}) => f[n] = 0}
    /\ pc = "astar"
    /\ to_see = push(EmptyBag, SmallestCostHolder(0, 0, 0))
    /\ parents = <<[node |-> start, parent |-> USIZE_MAX, cost |-> 0]>>
    /\ a_result = None
    /\ bag_to_see = EmptyBag
    /\ bag_parents = <<>>
    /\ min_cost = None
    /\ sinks = {}
    /\ b_result = None
    /\ sol = [sinks |-> <<>>, parents |-> <<>>, current |-> <<>>,
              terminated |-> FALSE]
    /\ out = None
    /\ yielded = <<>>
    /\ BfsIdle

Next ==
    \/ AstarReturn
    \/ AstarDiscard
    \/ AstarExpand
    \/ AstarNone
    \/ BagStart
    \/ BagBreak
    \/ BagDiscard
    \/ BagExpand
    \/ BagExhausted
    \/ SolNextNone
    \/ SolNext

Spec == Init /\ [][Next]_vars

\* The call of astar alone.  Its loop is sequential code: an iteration that
\* can be taken is taken, which is weak fairness of its steps.
AstarNext == AstarReturn \/ AstarDiscard \/ AstarExpand \/ AstarNone

AstarFairSpec == Init /\ [][AstarNext]_vars /\ WF_vars(AstarNext)

----------------------------------------------------------------------------
\* The arguments of the breadth-first family.

\* The state of astar and astar_bag while the breadth-first family runs.
AstarIdle ==
    /\ start = 0
    /\ edges = <<>>
    /\ h = [n \in Nodes |-> 0]
    /\ goal = {}
    /\ pc = "idle"
    /\ to_see = EmptyBag
    /\ parents = <<>>
    /\ a_result = None
    /\ bag_to_see = EmptyBag
    /\ bag_parents = <<>>
    /\ min_cost = None
    /\ sinks = {}
    /\ b_result = None
    /\ sol = [sinks |-> <<>>, parents |-> <<>>, current |-> <<>>,
              terminated |-> FALSE]
    /\ out = None
    /\ yielded = <<>>

RECURSIVE EdgeLists(_)
\* The successor functions with at most k edges (a successor may be
\* returned twice), as ordered edge lists.
EdgeLists(k) ==
    IF k = 0 THEN {<<>>}
    ELSE LET P == EdgeLists(k - 1)
         IN  P \cup {Append(l, e) : l \in {q \in P : Len(q) = k - 1},
                                    e \in Nodes \X Nodes}

\* The start sets, up to the names of the nodes: the first k nodes.
StartSets == {[k \in 1 .. n |-> k - 1] : n \in 1 .. NumNodes}

\* The edge lists all of whose edges leave a node reachable from R.
ReachableLists(R) ==
    {l \in EdgeLists(MaxEdges) :
        \A k \in 1 .. Len(l) : l[k][1] \in ReachFrom(R, Range(l))}

\* The state of the calls of the breadth-first family that do not run.
CoreIdle ==
    /\ check_first = FALSE
    /\ bfs_parents = <<>>
    /\ bfs_i = 0
    /\ bfs_result = None
    /\ loop_result = None
    /\ success_calls = <<>>

BiIdle ==
    /\ predecessors = <<>>
    /\ bi_successors = <<>>
    /\ i_forwards = 0
    /\ i_backwards = 0
    /\ bi_result = None

ReachIdle ==
    /\ reach = [i |-> 0, seen |-> <<>>]
    /\ reach_out = None
    /\ reach_yielded = <<>>

\* bfs and then bfs_loop, on every start set, graph and goal predicate (up
\* to what the calls can observe: the nodes reachable from the start set).
BfsInit ==
    /\ AstarIdle
    /\ start_set \in StartSets
    /\ elist \in ReachableLists(Range(start_set))
    /\ bfs_goal \in SUBSET ReachFrom(Range(start_set), Range(elist))
    /\ pred_same = FALSE
    /\ end_set = <<>>
    /\ todo = <<"bfs", "bfs_loop">>
    /\ bpc = "call"
    /\ CoreIdle /\ BiIdle /\ ReachIdle

BfsNext == BfsCall \/ BfsLoopCall \/ CoreStep \/ CoreNone

BfsSpec == BfsInit /\ [][BfsNext]_vars

RECURSIVE Symmetrize(_)
\* The successor function of the undirected graph with the edges l: every
\* edge is returned from both of its ends.
Symmetrize(l) ==
    IF l = <<>> THEN <<>>
    ELSE (IF l[1][1] = l[1][2] THEN <<l[1]>>
          ELSE <<l[1], <<l[1][2], l[1][1]>>>>) \o Symmetrize(Tail(l))

\* The end sets: the sequences of distinct nodes.
EndSets == UNION {PermSeqs(S) : S \in (SUBSET Nodes) \ {{}}}

\* bfs_bidirectional and then bfs with the goal "is an end node", on every
\* start set, end set and graph: either predecessors_fn is the reverse of
\* successors_fn, or the graph is undirected and one closure serves as both.
BiInit ==
    /\ AstarIdle
    /\ start_set \in StartSets
    /\ end_set \in EndSets
    /\ pred_same \in BOOLEAN
    /\ elist \in IF pred_same
                 THEN {Symmetrize(l) : l \in EdgeLists(MaxEdges)}
                 ELSE EdgeLists(MaxEdges)
    /\ bfs_goal = Range(end_set)
    /\ todo = <<"bfs_bidirectional", "bfs">>
    /\ bpc = "call"
    /\ CoreIdle /\ BiIdle /\ ReachIdle

BiNext == BiCall \/ BiRound \/ BfsCall \/ CoreStep \/ CoreNone

BiSpec == BiInit /\ [][BiNext]_vars

\* bfs_bidirectional alone on a directed graph, with predecessors_fn the
\* reverse of successors_fn and no node in both the start and the end set,
\* run to its return: the loop is not suspended.
BiDirectedInit ==
    /\ BiInit
    /\ ~pred_same
    /\ Range(start_set) \cap Range(end_set) = {}

BiAlone == BiCall \/ BiRound

BiFairSpec == BiDirectedInit /\ [][BiAlone]_vars /\ WF_vars(BiAlone)

\* bfs with a goal that never succeeds and then bfs_reach, on every graph
\* (up to what the calls can observe) from the start node 0.
ReachInit ==
    /\ AstarIdle
    /\ start_set = <<0>>
    /\ elist \in ReachableLists({0})
    /\ bfs_goal = {}
    /\ pred_same = FALSE
    /\ end_set = <<>>
    /\ todo = <<"bfs", "bfs_reach">>
    /\ bpc = "call"
    /\ CoreIdle /\ BiIdle /\ ReachIdle

ReachNextAll == BfsCall \/ CoreStep \/ CoreNone \/ ReachCall \/ ReachNext
                    \/ ReachNextNone

ReachSpec == ReachInit /\ [][ReachNextAll]_vars

----------------------------------------------------------------------------
\* What the claims speak about, computed from the arguments alone.

Min(S) == CHOOSE x \in S : \A y \in S : x <= y

\* A cost no path of the graph reaches: "no path".
Inf == NumNodes * MaxCost + 1

RECURSIVE remaining(_)
\* remaining(k)[n]: the least cost of a path of at most k edges from n to a
\* node satisfying the goal predicate (Inf when there is none).
remaining(k) ==
    IF k = 0 THEN [n \in Nodes |-> IF n \in goal THEN 0 ELSE Inf]
    ELSE LET d == remaining(k - 1)
         IN  [n \in Nodes |->
                Min({d[n], Inf} \cup
                    {edges[e] + d[e[2]] : e \in {x \in DOMAIN edges : x[1] = n}})]

\* The true remaining cost of every node.
TrueCost == remaining(NumNodes)

GoalReachable == TrueCost[start] < Inf

\* The heuristic never exceeds the true remaining cost.
Admissible == \A n \in Nodes : TrueCost[n] = Inf \/ h[n] <= TrueCost[n]

\* p runs along edges produced by the successor function.
IsWalk(p) ==
    /\ Len(p) >= 1
    /\ \A i \in 1 .. Len(p) : p[i] \in Nodes
    /\ \A i \in 1 .. (Len(p) - 1) : <<p[i], p[i + 1]>> \in DOMAIN edges

RECURSIVE WalkCost(_)
WalkCost(p) ==
    IF Len(p) <= 1 THEN 0
    ELSE edges[<<p[1], p[2]>>] + WalkCost(Tail(p))

\* p is a path from start to a node satisfying the goal predicate.
StartToGoal(p) == IsWalk(p) /\ p[1] = start /\ p[Len(p)] \in goal

NoNodeTwice(p) == \A i, j \in 1 .. Len(p) : p[i] = p[j] => i = j

\* The minimum-cost paths from start to a goal node that repeat no node.
OptimalPaths ==
    {p \in UNION {PermSeqs(S) : S \in SUBSET Nodes} :
        StartToGoal(p) /\ WalkCost(p) = TrueCost[start]}

\* The graph has a cycle of zero total cost that the search can reach.
ZeroCycle ==
    LET Z == {e \in DOMAIN edges : edges[e] = 0}
    IN  \E n \in Nodes : n \in ReachFrom({e[2] : e \in {d \in Z : d[1] = n}}, Z)

AstarReturned == pc = "astar_returned"
BagReturned == pc \in {"next", "done", "diverges", "panic"}
\* The enumeration is over: exhausted, or stuck in a call that never returns.
EnumerationOver == (pc = "next" /\ sol.terminated) \/ pc = "diverges"

----------------------------------------------------------------------------
\* C1: with an admissible heuristic, the cost astar returns is the minimum
\* cost over all paths from start to a goal node.
C1_OptimalCost ==
    (AstarReturned /\ a_result.some /\ Admissible)
        => a_result.v.cost = TrueCost[start]

\* astar returned an indirect path although a direct, dearer edge to a goal
\* exists, under an admissible heuristic that is not zero everywhere.
C1_Witness ==
    /\ AstarReturned /\ a_result.some /\ Admissible
    /\ Len(a_result.v.path) = 3
    /\ \E e \in DOMAIN edges :
        e[1] = start /\ e[2] \in goal /\ edges[e] > a_result.v.cost
    /\ \E n \in Nodes : h[n] > 0

\* C2: with an admissible heuristic, the path astar returns starts with
\* start, ends with a goal node, follows successor edges, and its edge costs
\* sum to the returned cost.
C2_PathMatchesCost ==
    (AstarReturned /\ a_result.some /\ Admissible)
        => /\ StartToGoal(a_result.v.path)
           /\ WalkCost(a_result.v.path) = a_result.v.cost

\* astar returned a path of three nodes with a positive cost to a goal node
\* that had first been registered at a higher cost: the superseded entry is
\* still in the heap.
C2_Witness ==
    /\ AstarReturned /\ a_result.some /\ Admissible
    /\ Len(a_result.v.path) = 3
    /\ a_result.v.cost > 0
    /\ \E e \in BagToSet(to_see) :
        /\ parents[e.index + 1].node = a_result.v.path[3]
        /\ e.cost > a_result.v.cost

\* C3: astar terminates, and it returns None exactly when no goal node is
\* reachable from start.
C3_TerminatesNoneIffUnreachable ==
    /\ [](AstarReturned => (a_result.some <=> GoalReachable))
    /\ <>(pc # "astar")

\* astar returned None after registering every node of a graph with a cycle.
C3_Witness ==
    /\ AstarReturned /\ ~a_result.some
    /\ Len(parents) = NumNodes
    /\ \E e \in DOMAIN edges : e[2] = start

\* C4: with an admissible heuristic, every path the solution of astar_bag
\* yields runs from start to a goal node along successor edges and costs
\* what astar_bag returned.
C4_YieldedPathsCostMin ==
    Admissible =>
        \A i \in 1 .. Len(yielded) :
            /\ StartToGoal(yielded[i])
            /\ WalkCost(yielded[i]) = b_result.v

\* Two paths of different lengths were yielded under an admissible
\* heuristic, on a graph without zero-cost cycles.
C4_Witness ==
    /\ Admissible /\ ~ZeroCycle /\ pc = "next" /\ Len(yielded) = 2
    /\ Len(yielded[1]) # Len(yielded[2])
    /\ b_result.v > 0

\* C5: with an admissible heuristic, once the enumeration is over every
\* minimum-cost path from start to a goal node has been yielded.
C5_AllOptimalPathsYielded ==
    (EnumerationOver /\ Admissible) => OptimalPaths \subseteq Range(yielded)

\* C6: no two paths yielded by a solution are the same node sequence.
C6_NoPathTwice ==
    \A i, j \in 1 .. Len(yielded) : yielded[i] = yielded[j] => i = j

\* A solution was exhausted after yielding two paths of positive cost.
C6_Witness ==
    pc = "next" /\ sol.terminated /\ Len(yielded) >= 2 /\ b_result.v > 0

\* C7: with an admissible heuristic, astar_bag returns Some exactly when
\* astar does, with the same cost, and its solution yields at least one path.
C7_BagAgreesWithAstar ==
    (BagReturned /\ Admissible) =>
        /\ b_result.some <=> a_result.some
        /\ b_result.some => b_result.v = a_result.v.cost
        /\ (b_result.some /\ EnumerationOver) => Len(yielded) >= 1

\* C8: every call of next on a solution terminates.
C8_NextTerminates == pc # "diverges"

\* C9: once the solution is exhausted, next returns None and changes nothing.
C9_ExhaustedStaysExhausted ==
    [][(pc = "next" /\ sol.terminated) =>
        (out' = None /\ sol' = sol /\ yielded' = yielded /\ pc' = pc)]_vars

\* next was called on an exhausted solution and returned None.
C9_Witness ==
    pc = "next" /\ sol.terminated /\ out = None /\ Len(yielded) >= 2

\* C10: with any heuristic, the parent references of astar's registry never
\* form a cycle, and the returned path contains no node twice.
C10_NoParentCycle ==
    /\ pc \in {"astar", "astar_returned"} =>
        \A i \in 0 .. (Len(parents) - 1) :
            Endless \notin Range(unfold(parents, i, Len(parents)))
    /\ (AstarReturned /\ a_result.some) => NoNodeTwice(a_result.v.path)

\* astar returned a path through a graph with a reachable zero-cost cycle,
\* under a heuristic that is not admissible.
C10_Witness ==
    /\ AstarReturned /\ a_result.some
    /\ ZeroCycle /\ ~Admissible
    /\ Len(a_result.v.path) >= 2


----------------------------------------------------------------------------
\* What the claims on the breadth-first family speak about.

\* The call f of todo has returned.
Returned(f) == bpc # "idle" /\ \A k \in 1 .. Len(todo) : todo[k] # f

\* The nodes one edge of E away from a node of R.
Image(R, E) == {e[2] : e \in {d \in E : d[1] \in R}}

RECURSIVE hops_from(_, _, _, _, _)
\* The least k + j such that a node of G is j edges of E away from a node of
\* the frontier F; S holds the nodes already met.  None when there is none.
hops_from(F, S, G, E, k) ==
    IF F \cap G # {} THEN Some(k)
    ELSE IF F = {} THEN None
    ELSE hops_from(Image(F, E) \ S, S \cup Image(F, E), G, E, k + 1)

\* The minimum hop count from a node of R to a node of G.
Hops(R, G, E) == hops_from(R, R, G, E, 0)

\* p is a walk along the edges of E.
IsEdgeWalk(p, E) ==
    /\ Len(p) >= 1
    /\ \A k \in 1 .. (Len(p) - 1) : <<p[k], p[k + 1]>> \in E

\* The graph of E has a cycle.
Cyclic(E) == \E n \in Nodes : n \in ReachFrom(Image({n}, E), E)

\* The least length of a walk of one edge or more from s back to s.
LoopHops(s, E) ==
    LET d == Hops(Image({s}, E), {s}, E)
    IN  IF d.some THEN Some(d.v + 1) ELSE None

\* C11: when bfs returns a path, it is a walk from a start node to a node
\* satisfying the goal whose edge count is the minimum hop count from the
\* start set to such a node (0 when a start node satisfies the goal), and
\* bfs returns None exactly when no such node is reachable.
C11_BfsMinimumHops ==
    Returned("bfs") =>
        LET d == Hops(Range(start_set), bfs_goal, Range(elist))
        IN  /\ bfs_result.some <=> d.some
            /\ bfs_result.some =>
                /\ Len(bfs_result.v) - 1 = d.v
                /\ IsEdgeWalk(bfs_result.v, Range(elist))
                /\ bfs_result.v[1] \in Range(start_set)
                /\ Last(bfs_result.v) \in bfs_goal

\* bfs has returned a path of one edge from the second of two start nodes,
\* while the first start node is two edges away from the goal.
C11_Witness ==
    /\ Returned("bfs")
    /\ bfs_result.some
    /\ Len(bfs_result.v) = 2
    /\ Len(start_set) = 2
    /\ bfs_result.v[1] = start_set[2]
    /\ Hops({start_set[1]}, bfs_goal, Range(elist)) = Some(2)

\* C12: bfs_loop returns None when the graph reachable from the start set is
\* acyclic; with a single start node n that has an edge to itself it returns
\* [n, n]; it never returns a path of a single node.
C12_LoopNoneOnAcyclic ==
    Returned("bfs_loop") =>
        /\ ~Cyclic(Range(elist)) => ~loop_result.some
        /\ (Len(start_set) = 1 /\ <<start_set[1], start_set[1]>> \in Range(elist))
            => loop_result = Some(<<start_set[1], start_set[1]>>)
        /\ loop_result.some => Len(loop_result.v) # 1

\* C13: a path returned by bfs_loop is a loop of minimum length: it is a
\* walk whose first and last node are the same start node, no other node
\* occurs twice in it, and no start node has a shorter loop.
C13_LoopFromStartToStart ==
    (Returned("bfs_loop") /\ loop_result.some) =>
        LET p == loop_result.v
        IN  /\ Len(p) >= 2
            /\ IsEdgeWalk(p, Range(elist))
            /\ p[1] \in Range(start_set)
            /\ Last(p) = p[1]
            /\ NoNodeTwice(Tail(p))
            /\ \A k \in 1 .. Len(start_set) :
                LET d == LoopHops(start_set[k], Range(elist))
                IN  d.some => Len(p) - 1 <= d.v

\* C14: with one start node, one end node and the same closure as
\* successors_fn and predecessors_fn (an undirected graph), the path of
\* bfs_bidirectional has as many nodes as the path of bfs with the goal
\* "is the end node", and one returns None exactly when the other does.
C14_BidirectionalAgreesWithBfs ==
    (/\ Returned("bfs_bidirectional") /\ Returned("bfs")
     /\ pred_same /\ Len(start_set) = 1 /\ Len(end_set) = 1) =>
        /\ bi_result.some <=> bfs_result.some
        /\ bi_result.some => Len(bi_result.v) = Len(bfs_result.v)

\* C15: a path returned by bfs_bidirectional begins at a start node, ends
\* at an end node and contains no node twice, whatever the start set and the
\* end set are.
C15_BidirectionalPathSimple ==
    (Returned("bfs_bidirectional") /\ bi_result.some) =>
        /\ bi_result.v[1] \in Range(start_set)
        /\ Last(bi_result.v) \in Range(end_set)
        /\ NoNodeTwice(bi_result.v)

\* The nodes reachable from the start node of bfs_reach, and the hop
\* distance of a node from it.
Reachable == ReachFrom({start_set[1]}, Range(elist))

Dist(n) == Hops({start_set[1]}, {n}, Range(elist)).v

\* bfs_reach has been called.
Enumerating == bpc = "reach"

\* next has returned None.
Exhausted == Enumerating /\ reach_yielded # <<>> /\ ~reach_out.some

RECURSIVE FirstNew(_, _)
\* The nodes of ss that are neither in d nor earlier in ss, in the order of
\* their first occurrence.
FirstNew(ss, d) ==
    IF ss = <<>> THEN <<>>
    ELSE IF ss[1] \in Range(d) THEN FirstNew(Tail(ss), d)
    ELSE <<ss[1]>> \o FirstNew(Tail(ss), Append(d, ss[1]))

RECURSIVE Discovered(_)
\* The nodes in the order of their first discovery when the first k of them
\* have been expanded one by one in that order, the start node being first.
Discovered(k) ==
    IF k = 0 THEN <<start_set[1]>>
    ELSE LET d == Discovered(k - 1)
         IN  IF k > Len(d) THEN d
             ELSE d \o FirstNew(targets_of(elist, d[k]), d)

\* C16: the sequence yielded by bfs_reach so far holds no node twice, and its
\* nodes are in non-decreasing order of hop distance from the start node.
C16_YieldedOnceInDepthOrder ==
    Enumerating =>
        /\ NoNodeTwice(reach_yielded)
        /\ \A j, k \in 1 .. Len(reach_yielded) :
            j <= k => Dist(reach_yielded[j]) <= Dist(reach_yielded[k])

\* Three nodes at the distances 0, 1 and 2 were yielded on a graph with an
\* edge from the last of them back to the first.
C16_Witness ==
    /\ Enumerating
    /\ Len(reach_yielded) = 3
    /\ Dist(reach_yielded[3]) = 2
    /\ <<reach_yielded[3], reach_yielded[1]>> \in Range(elist)

\* C17: when next has returned None, the yielded nodes are exactly the nodes
\* reachable from start, which are the nodes bfs registered with a goal that
\* never succeeds; from then on every call of next returns None and yields
\* nothing.
C17_ReachYieldsReachableSet ==
    /\ [](Exhausted =>
            /\ Range(reach_yielded) = Reachable
            /\ Returned("bfs") /\ ~bfs_result.some
            /\ Range(reach_yielded)
                = {bfs_parents[k].node : k \in 1 .. Len(bfs_parents)})
    /\ [][Exhausted => (Exhausted' /\ reach_yielded' = reach_yielded)]_vars

\* next has returned None after three nodes were yielded, two of them
\* successors of the start node.
C17_Witness ==
    /\ Exhausted
    /\ Len(reach_yielded) = 3
    /\ Len(targets_of(elist, start_set[1])) >= 2
    /\ Dist(reach_yielded[3]) = 1

\* C18: bfs_reach yields the start node first and then the nodes in the
\* order of their first discovery: after k calls of next the yielded nodes
\* are the first k nodes discovered, and the registered nodes are those
\* discovered by expanding exactly these k nodes in yield order.
C18_YieldedInDiscoveryOrder ==
    Enumerating =>
        LET k == Len(reach_yielded)
        IN  /\ k >= 1 => reach_yielded[1] = start_set[1]
            /\ reach.seen = Discovered(k)
            /\ reach_yielded = SubSeq(Discovered(k), 1, k)
            /\ reach_out.some => reach_out.v = Last(reach_yielded)

\* The start node returns its successors in an order that is not the order
\* of the node names, once itself, and all three nodes were yielded.
C18_Witness ==
    /\ Enumerating
    /\ targets_of(elist, start_set[1]) = <<2, 0, 1>>
    /\ reach_yielded = <<0, 2, 1>>

\* C19: the cursor never exceeds the number of registered nodes;
\* remaining_nodes_low_bound is the number of registered nodes minus the
\* number of nodes yielded; it never exceeds the number of nodes still to be
\* yielded; it is 0 exactly when no node is left to yield.
C19_LowBoundOfRemaining ==
    Enumerating =>
        LET left == Cardinality(Reachable) - Len(reach_yielded)
        IN  /\ reach.i <= Len(reach.seen)
            /\ reach.i = Len(reach_yielded)
            /\ remaining_nodes_low_bound(reach)
                = Len(reach.seen) - Len(reach_yielded)
            /\ remaining_nodes_low_bound(reach) <= left
            /\ remaining_nodes_low_bound(reach) = 0 <=> left = 0
            /\ remaining_nodes_low_bound(reach) = 0
                <=> ~reach_next(reach).out.some

\* One node is registered and not yet yielded, while two nodes are still to
\* be yielded.
C19_Witness ==
    /\ Enumerating
    /\ remaining_nodes_low_bound(reach) = 1
    /\ Cardinality(Reachable) - Len(reach_yielded) = 2

----------------------------------------------------------------------------
\* The registry of astar and of astar_bag.

\* No node is registered twice in ps.
RegisteredOnce(ps) ==
    \A j, k \in 1 .. Len(ps) : ps[j].node = ps[k].node => j = k

\* From ps to qs nothing is removed or moved, and no recorded cost grows.
AppendOnly(ps, qs) ==
    /\ Len(qs) >= Len(ps)
    /\ \A k \in 1 .. Len(ps) :
        /\ qs[k].node = ps[k].node
        /\ qs[k].cost <= ps[k].cost

\* C20: throughout a run of astar and of astar_bag a node is registered at
\* most once, and from one step of the run to the next the registry length
\* never decreases, the node at every index stays the same and the cost
\* recorded at every index never increases.
C20_RegistryAppendOnly ==
    /\ [](RegisteredOnce(parents) /\ RegisteredOnce(bag_parents))
    /\ [][/\ pc = "astar" => AppendOnly(parents, parents')
          /\ pc = "astar_bag" => AppendOnly(bag_parents, bag_parents')]_vars

\* astar_bag holds three registered nodes, one of which had its cost
\* lowered: an entry with the dearer cost is still in the heap.
C20_Witness ==
    /\ pc = "astar_bag"
    /\ Len(bag_parents) = 3
    /\ \E e \in BagToSet(bag_to_see) : e.cost > bag_parents[e.index + 1].cost

----------------------------------------------------------------------------
\* The frontier of astar and of astar_bag.

\* The entries of heap for the registry index i, each as often as it is held.
EntriesOf(heap, i) == {e \in BagToSet(heap) : e.index = i}

\* Every entry of heap costs at least what the registry ps records for its
\* index, and at most one entry per index costs exactly that.
OneLiveEntry(heap, ps) ==
    \A e \in BagToSet(heap) :
        /\ e.index < Len(ps)
        /\ e.cost >= ps[e.index + 1].cost
        /\ e.cost = ps[e.index + 1].cost =>
            /\ CopiesIn(e, heap) = 1
            /\ \A o \in EntriesOf(heap, e.index) : o.cost = e.cost => o = e

\* C21: at every step of astar and of astar_bag, at most one frontier entry
\* per registry index carries the cost the registry records for that index,
\* and every other frontier entry of that index carries a greater cost.
C21_OneLiveEntryPerIndex ==
    /\ pc \in {"astar", "astar_returned"} => OneLiveEntry(to_see, parents)
    /\ pc = "astar_bag" => OneLiveEntry(bag_to_see, bag_parents)

\* The frontier of astar holds, for one index, the entry of the recorded
\* cost and a superseded entry of a greater cost.
C21_Witness ==
    /\ pc = "astar"
    /\ \E e, o \in BagToSet(to_see) :
        /\ e.index = o.index
        /\ e.cost = parents[e.index + 1].cost
        /\ o.cost > e.cost

\* The entry e of the frontier of astar is superseded: the registry records
\* a lower cost for its index.
Superseded(e) == e.cost > parents[e.index + 1].cost

----------------------------------------------------------------------------
\* The parent sets of astar_bag and the enumerator built from them.

\* astar_bag has handed a solution to the caller.
Enumerator == pc \in {"next", "diverges", "panic"}

\* C23: the parent set of the start node (registry index 0) is empty at
\* every step of astar_bag, and so is its list in the table of the solution.
C23_StartHasNoParent ==
    /\ pc = "astar_bag" => bag_parents[1].parents = {}
    /\ Enumerator => sol.parents[1].parents = <<>>

\* Every index of the list l is an index of the table of the solution.
InTable(l) == \A k \in 1 .. Len(l) : l[k] >= 0 /\ l[k] < Len(sol.parents)

\* C24: whatever calls of next were made on a solution of astar_bag, no
\* unwrap and no index has failed, the sink list is not empty, every list on
\* the stack is non-empty, every stored index is within the table, and no
\* yielded path is empty.
C24_EnumeratorWellFormed ==
    /\ pc # "panic"
    /\ Enumerator =>
        /\ sol.sinks # <<>> /\ InTable(sol.sinks)
        /\ \A k \in 1 .. Len(sol.parents) : InTable(sol.parents[k].parents)
        /\ \A k \in 1 .. Len(sol.current) :
            sol.current[k] # <<>> /\ InTable(sol.current[k])
        /\ \A k \in 1 .. Len(yielded) : yielded[k] # <<>>

\* next has yielded a path of three nodes and left a stack of two lists:
\* the single sink, and above it what is left of a list of two parents.
C24_Witness ==
    /\ pc = "next"
    /\ Len(yielded) = 1
    /\ Len(yielded[1]) = 3
    /\ Len(sol.current) = 2
    /\ Len(sol.current[1]) = 1
    /\ Len(parents_of(sol, sol.current[1][1])) = 2

----------------------------------------------------------------------------
\* The calls of the goal predicate by bfs_core.

\* The calls made by the while loop: those after the check_first loop.
ScanCalls ==
    LET n == IF check_first THEN Len(first_calls(TRUE, start_set)) ELSE 0
    IN  SubSeq(success_calls, n + 1, Len(success_calls))

RECURSIVE Produced(_)
\* The successors the successor function returns for the first k nodes of
\* the registry, in the order it returns them.
Produced(k) ==
    IF k = 0 THEN <<>>
    ELSE Produced(k - 1)
         \o (IF k > Len(bfs_parents) THEN <<>>
             ELSE targets_of(elist, bfs_parents[k].node))

IsPrefix(p, q) == Len(p) <= Len(q) /\ p = SubSeq(q, 1, Len(p))

\* C25 as stated: the goal predicate is only called on a successor that is
\* not in the registry when it is produced.
C25_SuccessOnlyOnNewNodes ==
    \A k \in 1 .. Len(success_calls) : ~success_calls[k].known

\* C25, amended: the while loop of bfs_core calls the goal predicate on every
\* successor produced, in order, until one is accepted, whether or not it is
\* registered already; in bfs a call on a registered node never accepts, and
\* in bfs_loop every accepting call is one on a registered node.
C25_SuccessOnEverySuccessor ==
    LET nodes == [k \in 1 .. Len(ScanCalls) |-> ScanCalls[k].node]
    IN  /\ IsPrefix(Produced(bfs_i), nodes)
        /\ IsPrefix(nodes, Produced(bfs_i + 1))
        /\ bpc = "core" => nodes = Produced(bfs_i)
        /\ \A k \in 1 .. Len(ScanCalls) :
            /\ ScanCalls[k].result => k = Len(ScanCalls)
            /\ check_first => ~(ScanCalls[k].known /\ ScanCalls[k].result)
            /\ ~check_first => (ScanCalls[k].result => ScanCalls[k].known)

\* bfs_loop has returned a loop through two nodes: the call of the goal
\* predicate that ended the search was made on the registered start node.
C25_Witness ==
    /\ Returned("bfs_loop")
    /\ loop_result.some
    /\ Len(loop_result.v) = 3
    /\ Len(start_set) = 1
    /\ Last(success_calls).known
    /\ Last(success_calls).result

----------------------------------------------------------------------------
\* bfs_bidirectional on directed graphs.

\* The start set and the end set share no node, and predecessors_fn is the
\* reverse of successors_fn.
DisjointReverse ==
    /\ Range(start_set) \cap Range(end_set) = {}
    /\ \A n, m \in Nodes :
        (\E k \in 1 .. Len(predecessors_fn(n)) : predecessors_fn(n)[k] = m)
        <=> (\E k \in 1 .. Len(successors_fn(m)) : successors_fn(m)[k] = n)

\* C26: with disjoint start and end sets and predecessors_fn the reverse of
\* successors_fn, bfs_bidirectional returns; it returns a walk of minimum
\* edge count from a start node to an end node when there is one, and None
\* otherwise.
C26_BidirectionalShortest ==
    /\ [](Returned("bfs_bidirectional") /\ DisjointReverse =>
            LET d == Hops(Range(start_set), Range(end_set), Range(elist))
            IN  /\ bi_result.some <=> d.some
                /\ bi_result.some =>
                    /\ Len(bi_result.v) - 1 = d.v
                    /\ IsEdgeWalk(bi_result.v, Range(elist))
                    /\ bi_result.v[1] \in Range(start_set)
                    /\ Last(bi_result.v) \in Range(end_set))
    /\ <>(DisjointReverse => Returned("bfs_bidirectional"))

\* On a directed graph bfs_bidirectional has returned a path of two edges
\* from the second of two start nodes; the meeting was found in a backward
\* layer.
C26_Witness ==
    /\ Returned("bfs_bidirectional")
    /\ DisjointReverse /\ ~pred_same
    /\ bi_result.some
    /\ Len(bi_result.v) = 3
    /\ i_backwards < Len(bi_successors)
    /\ <<bi_result.v[2], bi_result.v[1]>> \notin Range(elist)

----------------------------------------------------------------------------
\* astar with any heuristic.

\* The path read from the registry of astar by following the parent
\* references from index i.
PathTo(i) == reverse_path(parents, i)

\* C27: whatever the heuristic, a path returned by astar is a walk from start
\* to a goal node whose edge costs sum to at most the returned cost; and at
\* every step the cost recorded at a registry index is at least the sum of
\* the edge costs of the path the parent references give for that index.
C27_CostBoundsPath ==
    /\ (AstarReturned /\ a_result.some) =>
        /\ StartToGoal(a_result.v.path)
        /\ WalkCost(a_result.v.path) <= a_result.v.cost
    /\ pc \in {"astar", "astar_returned"} =>
        \A i \in 0 .. (Len(parents) - 1) :
            /\ IsWalk(PathTo(i))
            /\ PathTo(i)[1] = start
            /\ Last(PathTo(i)) = parents[i + 1].node
            /\ WalkCost(PathTo(i)) <= parents[i + 1].cost

\* Under a heuristic that is not admissible astar has returned a path of two
\* nodes that costs more than the cheapest path, and the registry holds a
\* third node.
C27_Witness ==
    /\ AstarReturned /\ a_result.some /\ ~Admissible
    /\ a_result.v.cost > TrueCost[start]
    /\ Len(a_result.v.path) = 2
    /\ Len(parents) = 3

============================================================================
